---- MODULE Spec2Model ----
(***************************************************************************)
(* Model of ioniq_exporter (main.go): the poll goroutine of main, the five *)
(* gauges it publishes, and the generic helper ensureVehicleEx.            *)
(*                                                                         *)
(* Strings are sequences of one-character strings, so that strings.ToUpper *)
(* is computed character by character.                                     *)
(***************************************************************************)
EXTENDS Integers, Sequences, FiniteSets, TLC

(***************************************************************************)
(* Bounds of the model.                                                    *)
(***************************************************************************)
MaxVehicles == 2
MaxValue == 1

(***************************************************************************)
(* Program constants.                                                      *)
(***************************************************************************)
\* flag.String("vin", "TM...", ...)
DefaultVinEmpty == <<>>
DefaultVin == <<"T", "M", ".", ".", ".">>
\* flag.Int("poll-interval", 60, ...)
DefaultPollInterval == 60

(***************************************************************************)
(* Input domains.                                                          *)
(***************************************************************************)
\* identifiers and filters: the empty string, a short one, the flag's default
\* and a lower-case spelling of it
Vins ==
    {<<>>, <<"a">>,
     <<"T", "M", ".", ".", ".">>, <<"t", "m", ".", ".", ".">>}

VehicleIDs == {1, 2}

\* bluelink.Vehicle: the fields that tell two vehicles apart
Vehicles == [VIN : Vins, VehicleID : VehicleIDs]

RECURSIVE SeqsUpTo(_, _)
SeqsUpTo(S, n) ==
    IF n = 0 THEN {<<>>}
    ELSE LET shorter == SeqsUpTo(S, n - 1)
         IN  shorter \cup {Append(s, x) : s \in shorter, x \in S}

\* what api.Vehicles can return: a list and no error, or an error together
\* with whatever list was decoded before the call failed
ListResults ==
    [vehicles : SeqsUpTo(Vehicles, MaxVehicles), err : BOOLEAN]

\* values a numeric fetch can return
Values == 1..MaxValue

\* what statusString.String() can be: the seven codes of the switch and another
StatusCodes == {"", "A", "B", "C", "D", "E", "F", "G"}

PollIntervals == {DefaultPollInterval}

Metrics == {"range", "soc", "status", "finish", "odometer"}

NoValue == -1

(***************************************************************************)
(* strings.ToUpper                                                         *)
(***************************************************************************)
ToUpperChar(c) ==
    CASE c = "a" -> "A"
      [] c = "t" -> "T"
      [] c = "m" -> "M"
      [] OTHER   -> c

ToUpper(s) == [i \in 1..Len(s) |-> ToUpperChar(s[i])]

(***************************************************************************)
(* ensureVehicleEx                                                         *)
(***************************************************************************)
\* var zero T
ZeroVehicle == [VIN |-> <<>>, VehicleID |-> 0]

NilErr == [kind |-> "nil", got |-> <<>>]

\* the extract argument main passes: func(v) { return v.VIN, nil }
extract(v) == [s |-> v.VIN, err |-> NilErr]

\* lo.Map(vehicles, func(v, _) { vin, _ := extract(v); return vin })
\* MapVins printing the identifiers the way they are compared: upper-cased
MapVinsUpper(vehicles) ==
    [i \in 1..Len(vehicles) |-> ToUpper(extract(vehicles[i]).s)]

MapVins(vehicles) == [i \in 1..Len(vehicles) |-> extract(vehicles[i]).s]

\* return zero, fmt.Errorf("cannot find vehicle, got: %v", ...)
CannotFind(vehicles) ==
    [vehicle |-> ZeroVehicle,
     err     |-> [kind |-> "cannot find vehicle", got |-> MapVins(vehicles)]]

\* ScanVehicles with the loop running from the back: the last match wins
RECURSIVE ScanVehiclesLast(_, _, _)
ScanVehiclesLast(wanted, vehicles, i) ==
    LET j == Len(vehicles) + 1 - i
    IN  IF i > Len(vehicles) THEN CannotFind(vehicles)
        ELSE IF ToUpper(extract(vehicles[j]).s) = wanted
             THEN [vehicle |-> vehicles[j], err |-> NilErr]
             ELSE ScanVehiclesLast(wanted, vehicles, i + 1)

\* for _, vehicle := range vehicles { ... }, from index i on; falls through
\* to the final return when the loop ends; wanted is the upper-cased vin of
\* line 195
RECURSIVE ScanVehicles(_, _, _)
ScanVehicles(wanted, vehicles, i) ==
    IF i > Len(vehicles) THEN CannotFind(vehicles)
    ELSE LET vv == extract(vehicles[i])
         IN  IF vv.err # NilErr THEN [vehicle |-> ZeroVehicle, err |-> vv.err]
             ELSE IF ToUpper(vv.s) = wanted
                  THEN [vehicle |-> vehicles[i], err |-> NilErr]
                  ELSE ScanVehicles(wanted, vehicles, i + 1)

\* ensureVehicleEx taking the first vehicle whenever the list is not empty
ensureVehicleExAnyFirst(wanted, listing) ==
    IF listing.err
    THEN [vehicle |-> ZeroVehicle,
          err     |-> [kind |-> "cannot get vehicles", got |-> <<>>]]
    ELSE IF ToUpper(wanted) # <<>>
         THEN ScanVehicles(ToUpper(wanted), listing.vehicles, 1)
         ELSE IF Len(listing.vehicles) >= 1
              THEN [vehicle |-> listing.vehicles[1], err |-> NilErr]
              ELSE CannotFind(listing.vehicles)

\* ensureVehicleEx without its final return: an empty list under an empty
\* filter yields the zero vehicle and no error
ensureVehicleExEmptyOk(wanted, listing) ==
    IF listing.err
    THEN [vehicle |-> ZeroVehicle,
          err     |-> [kind |-> "cannot get vehicles", got |-> <<>>]]
    ELSE IF ToUpper(wanted) # <<>>
         THEN ScanVehicles(ToUpper(wanted), listing.vehicles, 1)
         ELSE IF Len(listing.vehicles) = 1
              THEN [vehicle |-> listing.vehicles[1], err |-> NilErr]
              ELSE IF Len(listing.vehicles) = 0
                   THEN [vehicle |-> ZeroVehicle, err |-> NilErr]
                   ELSE CannotFind(listing.vehicles)

\* ensureVehicleEx looking at the error of list() only after the search
ensureVehicleExSearchFirst(wanted, listing) ==
    LET found == IF ToUpper(wanted) # <<>>
                 THEN ScanVehicles(ToUpper(wanted), listing.vehicles, 1)
                 ELSE IF Len(listing.vehicles) = 1
                      THEN [vehicle |-> listing.vehicles[1], err |-> NilErr]
                      ELSE CannotFind(listing.vehicles)
    IN  IF found.err = NilErr \/ ~listing.err
        THEN found
        ELSE [vehicle |-> ZeroVehicle,
              err     |-> [kind |-> "cannot get vehicles", got |-> <<>>]]

\* wanted is the parameter vin; listing is the outcome of the call list():
\* [vehicles, err]
ensureVehicleEx(wanted, listing) ==
    IF listing.err
    THEN [vehicle |-> ZeroVehicle,
          err     |-> [kind |-> "cannot get vehicles", got |-> <<>>]]
    ELSE IF ToUpper(wanted) # <<>>
         THEN ScanVehicles(ToUpper(wanted), listing.vehicles, 1)
         ELSE IF Len(listing.vehicles) = 1
              THEN [vehicle |-> listing.vehicles[1], err |-> NilErr]
              ELSE CannotFind(listing.vehicles)

(***************************************************************************)
(* The status switch of main                                               *)
(***************************************************************************)
\* the switch with a default branch that publishes too
StatusValueOpen(code) ==
    CASE code = ""  -> 0
      [] code = "A" -> 1
      [] code = "B" -> 2
      [] code = "C" -> 3
      [] code = "D" -> 4
      [] code = "E" -> 5
      [] code = "F" -> 6
      [] OTHER      -> 7

\* switch statusString.String(): the value passed to evStatus.Set, or
\* NoValue for the default branch, which sets nothing
StatusValue(code) ==
    CASE code = ""  -> 0
      [] code = "A" -> 1
      [] code = "B" -> 2
      [] code = "C" -> 3
      [] code = "D" -> 4
      [] code = "E" -> 5
      [] code = "F" -> 6
      [] OTHER      -> NoValue

(***************************************************************************)
(* State                                                                   *)
(***************************************************************************)
VARIABLES
    vin,            \* *vin: the flag's value after flag.Parse
    vinGiven,       \* whether -vin was on the command line
    pollInterval,   \* *pollInterval
    pc,             \* where the poll goroutine stands
    vehicle,        \* the vehicle of the current iteration
    evRange, evSoc, evStatus, evFinishTime, evOdometer,   \* the gauges
    everSet,        \* gauges on which Set has been called since start
    loginErr,       \* this cycle: identity.Login returned an error
    listed,         \* this cycle: api.Vehicles has been called
    listFailed,     \* this cycle: api.Vehicles returned an error
    resolveErr,     \* this cycle: the kind of error ensureVehicleEx returned
    outcome,        \* this cycle, per metric: "none", "ok" or "err"
    got,            \* this cycle, per metric: what a successful fetch returned
    written,        \* this cycle: gauges on which Set has been called
    sleeps,         \* time.Sleep calls since the last Login call
    sleptFor,       \* seconds slept since the last Login call
    list,           \* ensureVehicleEx called on its own: what list() returned
    ret,            \* ensureVehicleEx called on its own: what it returned
    identity,       \* the identity of the current iteration
    api,            \* the API of the current iteration: the session it uses
    provider,       \* the provider built last: its session and its vehicle
    lastSet,        \* per gauge: the value of the last Set call
    wholeCycle,     \* the last cycle set all five gauges, and none was set since
    scraped,        \* what the metrics handler read last: a gauge and its value
    hungAt          \* the call that never returns, if there is one

gauges == <<evRange, evSoc, evStatus, evFinishTime, evOdometer>>

cycle == <<loginErr, listed, listFailed, resolveErr, outcome, got,
           written>>

flags == <<vin, vinGiven, pollInterval>>

\* what the poll goroutine never touches
aside == <<scraped, hungAt>>

vars == <<vin, vinGiven, pollInterval, pc, vehicle,
          evRange, evSoc, evStatus, evFinishTime, evOdometer, everSet,
          loginErr, listed, listFailed, resolveErr, outcome, got, written,
          sleeps, sleptFor, list, ret,
          identity, api, provider, lastSet, wholeCycle, scraped, hungAt>>

Sink == [range    |-> evRange,
         soc      |-> evSoc,
         status   |-> evStatus,
         finish   |-> evFinishTime,
         odometer |-> evOdometer]

NoCode == "none"

NoOutcome == [m \in Metrics |-> "none"]

NoGot == [range |-> NoValue, soc |-> NoValue, status |-> NoCode,
          finish |-> NoValue, odometer |-> NoValue]

NoList == [vehicles |-> <<>>, err |-> FALSE]

NoRet == [vehicle |-> ZeroVehicle, err |-> NilErr]

NoSession == "none"

NoProvider == [api |-> NoSession, vehicle |-> ZeroVehicle]

NoLastSet == [m \in Metrics |-> NoValue]

NoScrape == [metric |-> "none", val |-> NoValue]

\* the locals of main and the histories, before the goroutine starts
Fresh ==
    /\ identity = NoSession
    /\ api = NoSession
    /\ provider = NoProvider
    /\ lastSet = NoLastSet
    /\ wholeCycle = FALSE
    /\ scraped = NoScrape
    /\ hungAt = "none"

\* a provider of an iteration that is over: its session is an old one
Aged(p) == IF p.api = NoSession THEN p ELSE [p EXCEPT !.api = "old"]

\* a new iteration of the for loop: nothing of the last one is left
NewCycle ==
    /\ loginErr' = FALSE
    /\ listed' = FALSE
    /\ listFailed' = FALSE
    /\ resolveErr' = "nil"
    /\ outcome' = NoOutcome
    /\ got' = NoGot
    /\ written' = {}
    /\ vehicle' = ZeroVehicle
    /\ identity' = NoSession
    /\ api' = NoSession
    /\ provider' = Aged(provider)
    /\ wholeCycle' = (written = Metrics \/ (wholeCycle /\ written = {}))

\* flag.Parse: a flag that is not given keeps its default
ParseFlags ==
    /\ vinGiven \in BOOLEAN
    /\ vin \in (IF vinGiven THEN Vins ELSE {DefaultVin})
    /\ pollInterval \in PollIntervals

\* prometheus.NewGauge: a gauge starts at 0
NewGauges ==
    /\ evRange = 0
    /\ evSoc = 0
    /\ evStatus = 0
    /\ evFinishTime = 0
    /\ evOdometer = 0
    /\ everSet = {}

Init ==
    /\ ParseFlags
    /\ NewGauges
    /\ pc = "login"
    /\ vehicle = ZeroVehicle
    /\ loginErr = FALSE
    /\ listed = FALSE
    /\ listFailed = FALSE
    /\ resolveErr = "nil"
    /\ outcome = NoOutcome
    /\ got = NoGot
    /\ written = {}
    /\ sleeps = 0
    /\ sleptFor = 0
    /\ list = NoList
    /\ ret = NoRet
    /\ Fresh

(***************************************************************************)
(* What the remote calls can return                                        *)
(***************************************************************************)
\* provider.Range, provider.Soc, provider.FinishTime, provider.Odometer
NumResults ==
    {[val |-> v, err |-> FALSE] : v \in Values} \cup {[val |-> 0, err |-> TRUE]}

\* provider.Status
StatusResults ==
    {[val |-> c, err |-> FALSE] : c \in StatusCodes}
    \cup {[val |-> "", err |-> TRUE]}

Fetched(m, r) ==
    /\ outcome' = [outcome EXCEPT ![m] = IF r.err THEN "err" ELSE "ok"]
    /\ got' = IF r.err THEN got ELSE [got EXCEPT ![m] = r.val]

Published(m) ==
    /\ everSet' = everSet \cup {m}
    /\ written' = written \cup {m}

\* Gauge.Set(v) on the gauge of m
Recorded(m, v) ==
    /\ lastSet' = [lastSet EXCEPT ![m] = v]
    /\ wholeCycle' = FALSE

NotSet == UNCHANGED <<lastSet, wholeCycle>>

(***************************************************************************)
(* The poll goroutine, one action per call that can block                  *)
(***************************************************************************)
\* Login whose failure does not skip the rest of the iteration
LoginNoContinue ==
    /\ pc = "login"
    /\ \E err \in BOOLEAN :
          /\ loginErr' = err
          /\ pc' = "resolve"
    /\ sleeps' = 0
    /\ sleptFor' = 0
    /\ identity' = IF loginErr' THEN "failed" ELSE "new"
    /\ UNCHANGED <<flags, vehicle, gauges, everSet, listed, listFailed,
                   resolveErr,
                   outcome, got, written, list, ret,
                   api, provider, lastSet, wholeCycle, aside>>

\* Login ending the process when it fails
LoginFatal ==
    /\ pc = "login"
    /\ \E err \in BOOLEAN :
          /\ loginErr' = err
          /\ pc' = IF err THEN "exit" ELSE "resolve"
    /\ sleeps' = 0
    /\ sleptFor' = 0
    /\ identity' = IF loginErr' THEN "failed" ELSE "new"
    /\ UNCHANGED <<flags, vehicle, gauges, everSet, listed, listFailed,
                   resolveErr,
                   outcome, got, written, list, ret,
                   api, provider, lastSet, wholeCycle, aside>>

\* identity := bluelink.NewIdentity(...); identity.Login(...)
Login ==
    /\ pc = "login"
    /\ \E err \in BOOLEAN :
          /\ loginErr' = err
          /\ pc' = IF err THEN "sleep_login" ELSE "resolve"
    /\ sleeps' = 0
    /\ sleptFor' = 0
    /\ identity' = IF loginErr' THEN "failed" ELSE "new"
    /\ UNCHANGED <<flags, vehicle, gauges, everSet, listed, listFailed,
                   resolveErr,
                   outcome, got, written, list, ret,
                   api, provider, lastSet, wholeCycle, aside>>

\* vehicle, err := ensureVehicleEx(*vin, api.Vehicles, ...): for each filter
\* and each outcome of api.Vehicles, what the call returns: the vehicle, the
\* error, and whether api.Vehicles failed
Resolutions ==
    {LET r == ensureVehicleEx(f, l)
     IN  [vin |-> f, vehicle |-> r.vehicle, err |-> r.err.kind,
          failed |-> l.err] :
        f \in Vins, l \in ListResults}

\* Resolve going on to the fetches with the zero vehicle after a failure
ResolveNoContinue ==
    /\ pc = "resolve"
    /\ \E o \in Resolutions :
          /\ o.vin = vin
          /\ vehicle' = o.vehicle
          /\ resolveErr' = o.err
          /\ listFailed' = o.failed
          /\ pc' = "range"
    /\ listed' = TRUE
    /\ api' = identity
    /\ UNCHANGED <<flags, gauges, everSet, loginErr, outcome, got, written,
                   sleeps, sleptFor, list, ret,
                   identity, provider, lastSet, wholeCycle, aside>>

\* api := bluelink.NewAPI(...); vehicle, err := ensureVehicleEx(*vin, api.Vehicles, ...)
Resolve ==
    /\ pc = "resolve"
    /\ \E o \in Resolutions :
          /\ o.vin = vin
          /\ vehicle' = o.vehicle
          /\ resolveErr' = o.err
          /\ listFailed' = o.failed
          /\ pc' = IF o.err # "nil" THEN "sleep_resolve" ELSE "range"
    /\ listed' = TRUE
    /\ api' = identity
    /\ UNCHANGED <<flags, gauges, everSet, loginErr, outcome, got, written,
                   sleeps, sleptFor, list, ret,
                   identity, provider, lastSet, wholeCycle, aside>>

\* FetchRange resetting the gauge when the fetch fails
FetchRangeReset ==
    /\ pc = "range"
    /\ \E r \in NumResults :
          /\ Fetched("range", r)
          /\ IF r.err
             THEN evRange' = 0 /\ everSet' = everSet \ {"range"}
                  /\ UNCHANGED written /\ NotSet
             ELSE evRange' = r.val /\ Published("range")
                  /\ Recorded("range", r.val)
    /\ pc' = "soc"
    /\ provider' = [api |-> api, vehicle |-> vehicle]
    /\ UNCHANGED <<flags, vehicle, evSoc, evStatus, evFinishTime, evOdometer,
                   loginErr, listed, listFailed, resolveErr,
                   sleeps, sleptFor, list, ret,
                   identity, api, aside>>

\* FetchRange ending the iteration when the fetch fails
FetchRangeAbort ==
    /\ pc = "range"
    /\ \E r \in NumResults :
          /\ Fetched("range", r)
          /\ IF r.err
             THEN UNCHANGED <<evRange, everSet, written>> /\ NotSet
                  /\ pc' = "sleep_poll"
             ELSE evRange' = r.val /\ Published("range")
                  /\ Recorded("range", r.val) /\ pc' = "soc"
    /\ provider' = [api |-> api, vehicle |-> vehicle]
    /\ UNCHANGED <<flags, vehicle, evSoc, evStatus, evFinishTime, evOdometer,
                   loginErr, listed, listFailed, resolveErr,
                   sleeps, sleptFor, list, ret,
                   identity, api, aside>>

\* FetchRange reading the odometer as well, and setting its gauge, before the
\* soc is fetched
FetchRangeWithOdometer ==
    /\ pc = "range"
    /\ \E r \in NumResults :
          /\ Fetched("range", r)
          /\ IF r.err
             THEN UNCHANGED <<evRange, evOdometer, everSet, written>>
                  /\ NotSet
             ELSE /\ evRange' = r.val
                  /\ evOdometer' = r.val
                  /\ everSet' = everSet \cup {"range", "odometer"}
                  /\ written' = written \cup {"range", "odometer"}
                  /\ lastSet' = [lastSet EXCEPT !["range"] = r.val,
                                                !["odometer"] = r.val]
                  /\ wholeCycle' = FALSE
    /\ pc' = "soc"
    /\ provider' = [api |-> api, vehicle |-> vehicle]
    /\ UNCHANGED <<flags, vehicle, evSoc, evStatus, evFinishTime,
                   loginErr, listed, listFailed, resolveErr,
                   sleeps, sleptFor, list, ret,
                   identity, api, aside>>

\* FetchRange building the provider in the first polling cycle only
FetchRangeKeepsProvider ==
    /\ pc = "range"
    /\ \E r \in NumResults :
          /\ Fetched("range", r)
          /\ IF r.err
             THEN UNCHANGED <<evRange, everSet, written>> /\ NotSet
             ELSE evRange' = r.val /\ Published("range")
                  /\ Recorded("range", r.val)
    /\ pc' = "soc"
    /\ provider' = IF provider = NoProvider
                   THEN [api |-> api, vehicle |-> vehicle]
                   ELSE provider
    /\ UNCHANGED <<flags, vehicle, evSoc, evStatus, evFinishTime, evOdometer,
                   loginErr, listed, listFailed, resolveErr,
                   sleeps, sleptFor, list, ret,
                   identity, api, aside>>

\* FetchRange building the provider for the vehicle of the first polling
\* cycle
FetchRangeKeepsVehicle ==
    /\ pc = "range"
    /\ \E r \in NumResults :
          /\ Fetched("range", r)
          /\ IF r.err
             THEN UNCHANGED <<evRange, everSet, written>> /\ NotSet
             ELSE evRange' = r.val /\ Published("range")
                  /\ Recorded("range", r.val)
    /\ pc' = "soc"
    /\ provider' = [api     |-> api,
                    vehicle |-> IF provider = NoProvider
                                THEN vehicle ELSE provider.vehicle]
    /\ UNCHANGED <<flags, vehicle, evSoc, evStatus, evFinishTime, evOdometer,
                   loginErr, listed, listFailed, resolveErr,
                   sleeps, sleptFor, list, ret,
                   identity, api, aside>>

\* provider := bluelink.NewProvider(...); rangeKm, err := provider.Range()
FetchRange ==
    /\ pc = "range"
    /\ \E r \in NumResults :
          /\ Fetched("range", r)
          /\ IF r.err
             THEN UNCHANGED <<evRange, everSet, written>> /\ NotSet
             ELSE evRange' = r.val /\ Published("range")
                  /\ Recorded("range", r.val)
    /\ pc' = "soc"
    /\ provider' = [api |-> api, vehicle |-> vehicle]
    /\ UNCHANGED <<flags, vehicle, evSoc, evStatus, evFinishTime, evOdometer,
                   loginErr, listed, listFailed, resolveErr,
                   sleeps, sleptFor, list, ret,
                   identity, api, aside>>

\* FetchSoc setting the gauge of the range: evRange.Set(float64(soc))
FetchSocIntoRange ==
    /\ pc = "soc"
    /\ \E r \in NumResults :
          /\ Fetched("soc", r)
          /\ IF r.err
             THEN UNCHANGED <<evRange, everSet, written>> /\ NotSet
             ELSE evRange' = r.val /\ Published("soc")
                  /\ Recorded("soc", r.val)
    /\ pc' = "status"
    /\ UNCHANGED <<flags, vehicle, evSoc, evStatus, evFinishTime, evOdometer,
                   loginErr, listed, listFailed, resolveErr,
                   sleeps, sleptFor, list, ret,
                   identity, api, provider, aside>>

\* soc, err := provider.Soc()
FetchSoc ==
    /\ pc = "soc"
    /\ \E r \in NumResults :
          /\ Fetched("soc", r)
          /\ IF r.err
             THEN UNCHANGED <<evSoc, everSet, written>> /\ NotSet
             ELSE evSoc' = r.val /\ Published("soc")
                  /\ Recorded("soc", r.val)
    /\ pc' = "status"
    /\ UNCHANGED <<flags, vehicle, evRange, evStatus, evFinishTime, evOdometer,
                   loginErr, listed, listFailed, resolveErr,
                   sleeps, sleptFor, list, ret,
                   identity, api, provider, aside>>

\* statusString, err := provider.Status(), and the switch
FetchStatus ==
    /\ pc = "status"
    /\ \E r \in StatusResults :
          /\ Fetched("status", r)
          /\ IF r.err \/ StatusValue(r.val) = NoValue
             THEN UNCHANGED <<evStatus, everSet, written>> /\ NotSet
             ELSE evStatus' = StatusValue(r.val) /\ Published("status")
                  /\ Recorded("status", StatusValue(r.val))
    /\ pc' = "finish"
    /\ UNCHANGED <<flags, vehicle, evRange, evSoc, evFinishTime, evOdometer,
                   loginErr, listed, listFailed, resolveErr,
                   sleeps, sleptFor, list, ret,
                   identity, api, provider, aside>>

\* finishTime, err := provider.FinishTime()
FetchFinishTime ==
    /\ pc = "finish"
    /\ \E r \in NumResults :
          /\ Fetched("finish", r)
          /\ IF r.err
             THEN UNCHANGED <<evFinishTime, everSet, written>> /\ NotSet
             ELSE evFinishTime' = r.val /\ Published("finish")
                  /\ Recorded("finish", r.val)
    /\ pc' = "odometer"
    /\ UNCHANGED <<flags, vehicle, evRange, evSoc, evStatus, evOdometer,
                   loginErr, listed, listFailed, resolveErr,
                   sleeps, sleptFor, list, ret,
                   identity, api, provider, aside>>

\* FetchOdometer without the sleep after it: the next iteration starts at once
FetchOdometerNoSleep ==
    /\ pc = "odometer"
    /\ \E r \in NumResults :
          IF r.err
          THEN UNCHANGED <<evOdometer, everSet>>
          ELSE evOdometer' = r.val /\ everSet' = everSet \cup {"odometer"}
    /\ pc' = "login"
    /\ NewCycle
    /\ UNCHANGED <<flags, evRange, evSoc, evStatus, evFinishTime,
                   sleeps, sleptFor, list, ret, lastSet, aside>>

\* odometer, err := provider.Odometer()
FetchOdometer ==
    /\ pc = "odometer"
    /\ \E r \in NumResults :
          /\ Fetched("odometer", r)
          /\ IF r.err
             THEN UNCHANGED <<evOdometer, everSet, written>> /\ NotSet
             ELSE evOdometer' = r.val /\ Published("odometer")
                  /\ Recorded("odometer", r.val)
    /\ pc' = "sleep_poll"
    /\ UNCHANGED <<flags, vehicle, evRange, evSoc, evStatus, evFinishTime,
                   loginErr, listed, listFailed, resolveErr,
                   sleeps, sleptFor, list, ret,
                   identity, api, provider, aside>>

\* time.Sleep(time.Duration(*pollInterval) * time.Second), then the next
\* iteration
Slept ==
    /\ sleeps' = sleeps + 1
    /\ sleptFor' = sleptFor + pollInterval
    /\ pc' = "login"
    /\ NewCycle
    /\ UNCHANGED <<flags, gauges, everSet, list, ret, lastSet, aside>>

\* SleepLogin retrying at once
SleepLoginNoSleep ==
    /\ pc = "sleep_login"
    /\ pc' = "login"
    /\ NewCycle
    /\ UNCHANGED <<flags, gauges, everSet, list, ret, sleeps, sleptFor,
                   lastSet, aside>>

\* after a failed login: time.Sleep; continue
SleepLogin ==
    /\ pc = "sleep_login"
    /\ Slept

\* after a failed resolution: time.Sleep; continue
SleepResolve ==
    /\ pc = "sleep_resolve"
    /\ Slept

\* at the end of the loop body: time.Sleep
SleepPoll ==
    /\ pc = "sleep_poll"
    /\ Slept

Next ==
    \/ Login
    \/ Resolve
    \/ FetchRange
    \/ FetchSoc
    \/ FetchStatus
    \/ FetchFinishTime
    \/ FetchOdometer
    \/ SleepLogin
    \/ SleepResolve
    \/ SleepPoll

Spec == Init /\ [][Next]_vars

\* every remote call and every sleep returns: the goroutine, when it can
\* take a step, takes it
LiveSpec == Spec /\ WF_vars(Next)

(***************************************************************************)
(* The metrics handler next to the poll goroutine                          *)
(***************************************************************************)
\* what the goroutine works on: everything but the handler's reading
loop == <<flags, pc, vehicle, gauges, everSet, cycle, sleeps, sleptFor,
          identity, api, provider, lastSet, wholeCycle, hungAt>>

\* Scrape setting the gauge it has read back to 0
ScrapeResets ==
    \E m \in Metrics :
       /\ scraped' = [metric |-> m, val |-> Sink[m]]
       /\ evRange' = IF m = "range" THEN 0 ELSE evRange
       /\ evSoc' = IF m = "soc" THEN 0 ELSE evSoc
       /\ evStatus' = IF m = "status" THEN 0 ELSE evStatus
       /\ evFinishTime' = IF m = "finish" THEN 0 ELSE evFinishTime
       /\ evOdometer' = IF m = "odometer" THEN 0 ELSE evOdometer
       /\ UNCHANGED <<flags, pc, vehicle, everSet, cycle, sleeps, sleptFor,
                      identity, api, provider, lastSet, wholeCycle, hungAt,
                      list, ret>>

\* promhttp.HandlerFor(prometheus.DefaultGatherer, ...) serving a request:
\* the handler reads the gauges one after the other, each read a step of its
\* own between the steps of the goroutine
Scrape ==
    \E m \in Metrics :
       /\ scraped' = [metric |-> m, val |-> Sink[m]]
       /\ UNCHANGED <<loop, list, ret>>

NextScrape == Next \/ Scrape

\* the exporter started without -vin: what the handler reads does not
\* depend on the filter
InitScrape == Init /\ ~vinGiven

SpecScrape == InitScrape /\ [][NextScrape]_vars

(***************************************************************************)
(* The poll goroutine with remote calls that may never return              *)
(***************************************************************************)
\* the positions at which the goroutine waits for a remote call
CallPcs == {"login", "resolve", "range", "soc", "status", "finish",
            "odometer"}

\* Hang with a deadline on the call: the goroutine gives up and sleeps
HangTimesOut ==
    /\ pc \in CallPcs
    /\ hungAt' = pc
    /\ pc' = "sleep_poll"
    /\ UNCHANGED <<flags, vehicle, gauges, everSet, cycle, sleeps, sleptFor,
                   identity, api, provider, lastSet, wholeCycle, scraped,
                   list, ret>>

\* identity.Login, api.Vehicles or a provider call never returns: none of
\* them is given a deadline, and the goroutine stays in the call
Hang ==
    /\ pc \in CallPcs
    /\ hungAt' = pc
    /\ pc' = "hang"
    /\ UNCHANGED <<flags, vehicle, gauges, everSet, cycle, sleeps, sleptFor,
                   identity, api, provider, lastSet, wholeCycle, scraped,
                   list, ret>>

NextHang == Next \/ Hang

SpecHang == Init /\ [][NextHang]_vars

(***************************************************************************)
(* ensureVehicleEx on its own: any filter the flag can hold, any outcome   *)
(* of list()                                                               *)
(***************************************************************************)
InitResolver ==
    /\ ParseFlags
    /\ NewGauges
    /\ pc = "ensure"
    /\ vehicle = ZeroVehicle
    /\ loginErr = FALSE
    /\ listed = FALSE
    /\ listFailed = FALSE
    /\ resolveErr = "nil"
    /\ outcome = NoOutcome
    /\ got = NoGot
    /\ written = {}
    /\ sleeps = 0
    /\ sleptFor = 0
    /\ list = NoList
    /\ ret = NoRet
    /\ Fresh

CallEnsureVehicleEx ==
    /\ pc = "ensure"
    /\ \E l \in ListResults :
          /\ list' = l
          /\ ret' = ensureVehicleEx(vin, l)
    /\ pc' = "returned"
    /\ UNCHANGED <<flags, vehicle, gauges, everSet, cycle, sleeps, sleptFor,
                   identity, api, provider, lastSet, wholeCycle, aside>>

NextResolver == CallEnsureVehicleEx

SpecResolver == InitResolver /\ [][NextResolver]_vars

(***************************************************************************)
(* Vocabulary of the properties                                            *)
(***************************************************************************)
\* two characters that are the same letter in either case
SameLetter(c, d) ==
    \/ c = d
    \/ {c, d} \in {{"a", "A"}, {"t", "T"}, {"m", "M"}}

\* two strings that differ in letter case at most
EqualFold(s, t) ==
    /\ Len(s) = Len(t)
    /\ \A i \in 1..Len(s) : SameLetter(s[i], t[i])

\* the indices of the vehicles whose identifier is the filter f, case aside
Matching(l, f) == {i \in 1..Len(l) : EqualFold(l[i].VIN, f)}

Lowest(S) == CHOOSE i \in S : \A j \in S : i <= j

Returned == pc = "returned" /\ ~list.err

SleepPcs == {"sleep_login", "sleep_resolve", "sleep_poll"}

\* the position at which each metric is fetched, and the one after it
FetchPc == [range |-> "range", soc |-> "soc", status |-> "status",
            finish |-> "finish", odometer |-> "odometer"]

AfterPc == [range |-> "soc", soc |-> "status", status |-> "finish",
            finish |-> "odometer", odometer |-> "sleep_poll"]

KnownCodes == {"", "A", "B", "C", "D", "E", "F"}

(***************************************************************************)
(* Properties of ensureVehicleEx, under SpecResolver                       *)
(***************************************************************************)
\* C1: with a non-empty filter, and some identifier in the list equal to it
\* up to letter case, ensureVehicleEx succeeds and returns the matching
\* vehicle of lowest index, duplicates and case variants included.
C1_FirstMatch ==
    (Returned /\ vin # <<>> /\ Matching(list.vehicles, vin) # {})
        => /\ ret.err = NilErr
           /\ ret.vehicle = list.vehicles[Lowest(Matching(list.vehicles, vin))]

\* two different vehicles match, the first in another letter case than the
\* filter's, and the first is returned
C1_Witness ==
    /\ Returned
    /\ vin # <<>>
    /\ Cardinality(Matching(list.vehicles, vin)) = 2
    /\ list.vehicles[1] # list.vehicles[2]
    /\ list.vehicles[1].VIN # vin
    /\ ret.vehicle = list.vehicles[1]

\* C2: with an empty filter ensureVehicleEx succeeds exactly when the list
\* has one element, which it returns; for length 0 and for length above 1 it
\* fails and returns the zero vehicle.
C2_SingleVehicle ==
    (Returned /\ vin = <<>>)
        => /\ (ret.err = NilErr) <=> (Len(list.vehicles) = 1)
           /\ Len(list.vehicles) = 1 => ret.vehicle = list.vehicles[1]
           /\ Len(list.vehicles) # 1 => ret.vehicle = ZeroVehicle

C2_Witness ==
    /\ Returned
    /\ vin = <<>>
    /\ Len(list.vehicles) = 1
    /\ ret.err = NilErr
    /\ ret.vehicle = list.vehicles[1]
    /\ ret.vehicle.VIN # <<>>

\* C10 as stated: with no -vin on the command line the filter is empty, and
\* a list of one vehicle resolves to that vehicle whatever its identifier.
C10_DefaultIsSingleMode ==
    (Returned /\ ~vinGiven /\ Len(list.vehicles) = 1)
        => /\ vin = <<>>
           /\ ret.err = NilErr
           /\ ret.vehicle = list.vehicles[1]

\* C10 amended: with no -vin on the command line the filter is "TM...", and
\* a list of one vehicle resolves to that vehicle exactly when its identifier
\* is "TM..." up to letter case; with -vin "" a list of one vehicle resolves
\* to that vehicle whatever its identifier.
C10_DefaultIsPlaceholder ==
    (Returned /\ Len(list.vehicles) = 1)
        => /\ ~vinGiven =>
                /\ vin = <<"T", "M", ".", ".", ".">>
                /\ (ret.err = NilErr)
                       <=> EqualFold(list.vehicles[1].VIN,
                                     <<"T", "M", ".", ".", ".">>)
                /\ ret.err = NilErr => ret.vehicle = list.vehicles[1]
           /\ (vinGiven /\ vin = <<>>) =>
                /\ ret.err = NilErr
                /\ ret.vehicle = list.vehicles[1]

\* the default filter rejects the only vehicle of the list
C10_Witness ==
    /\ Returned
    /\ ~vinGiven
    /\ Len(list.vehicles) = 1
    /\ ~EqualFold(list.vehicles[1].VIN, <<"T", "M", ".", ".", ".">>)
    /\ ret.err.kind = "cannot find vehicle"

\* the two cases in which ensureVehicleEx has the list and finds no vehicle
NoMatch == vin # <<>> /\ Matching(list.vehicles, vin) = {}

NoSingle == vin = <<>> /\ Len(list.vehicles) # 1

\* C11 as stated: the failure of a non-empty filter that matches nothing is
\* of another kind than the failure of an empty filter on a list whose length
\* is not 1: on one and the same list the two failures are different errors.
C11_TwoFailureKinds ==
    (Returned /\ NoMatch /\ Len(list.vehicles) # 1)
        => ret.err # ensureVehicleEx(<<>>, list).err

\* C11 amended: ensureVehicleEx, having the list, fails exactly when a
\* non-empty filter matches nothing or the filter is empty and the length of
\* the list is not 1 (0 or above 1); in both cases it returns the zero
\* vehicle and one and the same error, "cannot find vehicle".
C11_OneFailureKind ==
    Returned
        => /\ (ret.err # NilErr) <=> (NoMatch \/ NoSingle)
           /\ (NoMatch \/ NoSingle)
                  => /\ ret.vehicle = ZeroVehicle
                     /\ ret.err.kind = "cannot find vehicle"
           /\ NoMatch => ret.err = ensureVehicleEx(<<>>, list).err
                             \/ Len(list.vehicles) = 1

\* the empty list fails under an empty filter
C11_Witness ==
    /\ Returned
    /\ NoSingle
    /\ Len(list.vehicles) = 0
    /\ ret.err.kind = "cannot find vehicle"
    /\ ret.vehicle = ZeroVehicle

\* C17: when ensureVehicleEx has the list and fails (a non-empty filter that
\* matches nothing, or an empty filter and a list whose length is not 1), the
\* error carries the identifiers of all vehicles of the list, one for each
\* vehicle, in the order of the list, as they are in the list, duplicates
\* included.
C17_ErrorListsAll ==
    (Returned /\ (NoMatch \/ NoSingle))
        => /\ Len(ret.err.got) = Len(list.vehicles)
           /\ \A i \in 1..Len(list.vehicles) :
                  ret.err.got[i] = list.vehicles[i].VIN

\* two vehicles of one identifier, in lower case, and both are listed
C17_Witness ==
    /\ Returned
    /\ NoSingle
    /\ Len(list.vehicles) = 2
    /\ list.vehicles[1].VIN = <<"a">>
    /\ list.vehicles[2].VIN = <<"a">>
    /\ list.vehicles[1] # list.vehicles[2]
    /\ ret.err.got = <<(<<"a">>), (<<"a">>)>>

(***************************************************************************)
(* Properties of the poll goroutine, under Spec                            *)
(***************************************************************************)
\* C3: a status fetch that succeeds sets evStatus to 0 for "", and to 1..6
\* for "A".."F"; for any other code nothing is set, and evStatus keeps the
\* value it had before the fetch.
C3_StatusMapping ==
    [][(pc = "status" /\ outcome'["status"] = "ok")
          => LET code == got'["status"]
             IN  /\ \A p \in {<<"", 0>>, <<"A", 1>>, <<"B", 2>>, <<"C", 3>>,
                              <<"D", 4>>, <<"E", 5>>, <<"F", 6>>} :
                        code = p[1] => /\ evStatus' = p[2]
                                       /\ "status" \in written'
                 /\ code \notin KnownCodes
                        => /\ evStatus' = evStatus
                           /\ "status" \notin written'
                           /\ everSet' = everSet]_vars

\* the code "C" has been published as 3
C3_Witness ==
    /\ pc = "finish"
    /\ outcome["status"] = "ok"
    /\ got["status"] = "C"
    /\ evStatus = 3

\* C4: a gauge that has been set stays set; a gauge changes only in the
\* step that fetches its metric, and only when that fetch succeeds; a failed
\* fetch, a failed login, a failed resolution and the sleeps change no gauge.
C4_KeepsLastValue ==
    [][/\ everSet \subseteq everSet'
       /\ \A m \in Metrics :
             /\ Sink'[m] # Sink[m]
                   => /\ pc = FetchPc[m]
                      /\ outcome'[m] = "ok"
                      /\ m \in written'
             /\ (pc = FetchPc[m] /\ outcome'[m] = "err") => Sink'[m] = Sink[m]
       /\ (pc \in {"login", "resolve"} \cup SleepPcs) => Sink' = Sink]_vars

\* the status fetch of this cycle failed, and the gauge still shows what an
\* earlier cycle published
C4_Witness ==
    /\ outcome["status"] = "err"
    /\ "status" \in everSet
    /\ evStatus = 5
    /\ pc = "sleep_poll"

\* C5 as stated: in a cycle that reaches the fetches all five are made
\* whatever the others returned, and every fetch that succeeded has set its
\* gauge in that cycle.
C5_EverySuccessPublishes ==
    [][/\ \A m \in Metrics : pc = FetchPc[m] => pc' = AfterPc[m]
       /\ pc' = "sleep_poll"
             => \A m \in Metrics :
                   /\ outcome'[m] # "none"
                   /\ outcome'[m] = "ok" => m \in written']_vars

\* C5 amended: in a cycle that reaches the fetches all five are made whatever
\* the others returned, and every fetch that succeeded has set its gauge to
\* the fetched value in that cycle, the status fetch only when its code is
\* one of "", "A".."F".
C5_FetchesIndependent ==
    [][/\ \A m \in Metrics : pc = FetchPc[m] => pc' = AfterPc[m]
       /\ pc' = "sleep_poll"
             => /\ \A m \in Metrics \ {"status"} :
                      /\ outcome'[m] # "none"
                      /\ outcome'[m] = "ok"
                            => m \in written' /\ Sink'[m] = got'[m]
                /\ outcome'["status"] # "none"
                /\ (outcome'["status"] = "ok" /\ got'["status"] \in KnownCodes)
                      => "status" \in written']_vars

\* the range fetch failed and the four others published
C5_Witness ==
    /\ pc = "sleep_poll"
    /\ outcome["range"] = "err"
    /\ \A m \in Metrics \ {"range"} : outcome[m] = "ok"
    /\ written = Metrics \ {"range"}

\* C6: a login that fails leads to the sleep and the sleep to the next login,
\* with no call of api.Vehicles, no fetch and no gauge set in between.
C6_LoginFailureSleeps ==
    [][/\ (pc = "login" /\ loginErr') => pc' = "sleep_login"
       /\ pc' = "sleep_login"
             => /\ loginErr'
                /\ ~listed'
                /\ outcome' = NoOutcome
                /\ written' = {}
                /\ Sink' = Sink
       /\ pc = "sleep_login"
             => /\ pc' = "login"
                /\ Sink' = Sink
                /\ everSet' = everSet]_vars

C6_Witness ==
    /\ pc = "sleep_login"
    /\ loginErr
    /\ everSet = Metrics

\* C7: a resolution that fails, for any of its reasons, leads to the sleep
\* and the sleep to the next login, with no fetch and no gauge set in between.
C7_ResolveFailureSleeps ==
    [][/\ (pc = "resolve" /\ resolveErr' # "nil") => pc' = "sleep_resolve"
       /\ pc' = "sleep_resolve"
             => /\ resolveErr' \in {"cannot get vehicles", "cannot find vehicle"}
                /\ listed'
                /\ outcome' = NoOutcome
                /\ written' = {}
                /\ Sink' = Sink
       /\ pc = "sleep_resolve"
             => /\ pc' = "login"
                /\ Sink' = Sink
                /\ everSet' = everSet]_vars

C7_Witness ==
    /\ pc = "sleep_resolve"
    /\ resolveErr = "cannot find vehicle"
    /\ vin # <<>>
    /\ everSet = Metrics

\* C20: when api.Vehicles returns an error, ensureVehicleEx returns the zero
\* vehicle and the error "cannot get vehicles", whatever the filter and
\* whatever list came with the error, and the goroutine goes to the sleep
\* that ends the cycle, no gauge set.
C20_ListFailureAborts ==
    [][(pc = "resolve" /\ listFailed')
          => /\ resolveErr' = "cannot get vehicles"
             /\ vehicle' = ZeroVehicle
             /\ pc' = "sleep_resolve"
             /\ Sink' = Sink
             /\ written' = {}
             /\ outcome' = NoOutcome]_vars

\* the list call failed under a non-empty filter, and under an empty one
C20_Witness ==
    /\ pc = "sleep_resolve"
    /\ listFailed
    /\ resolveErr = "cannot get vehicles"
    /\ vin # <<>>
    /\ everSet # {}

\* the value a fetch that returned got sets its gauge to
SetValue(m, g) ==
    IF m = "status"
    THEN CASE g = ""  -> 0 [] g = "A" -> 1 [] g = "B" -> 2 [] g = "C" -> 3
           [] g = "D" -> 4 [] g = "E" -> 5 [] g = "F" -> 6 [] OTHER -> NoValue
    ELSE g

\* C16 as stated: a fetch that succeeds sets the gauge of its metric and no
\* other gauge; a fetch that fails sets no gauge.
C16_SuccessSetsOwnGauge ==
    [][\A m \in Metrics :
          pc = FetchPc[m]
             => /\ outcome'[m] = "ok"
                      => /\ m \in written'
                         /\ \A o \in Metrics \ {m} : Sink'[o] = Sink[o]
                /\ outcome'[m] = "err" => Sink' = Sink]_vars

\* C16 amended: a fetch that succeeds sets the gauge of its metric to the
\* fetched value and no other gauge, except that a status fetch returning a
\* code other than "", "A".."F" sets no gauge at all; a fetch that fails sets
\* no gauge.
C16_SetsOwnGaugeOnly ==
    [][\A m \in Metrics :
          pc = FetchPc[m]
             => /\ (outcome'[m] = "ok" /\ SetValue(m, got'[m]) # NoValue)
                      => /\ Sink' = [Sink EXCEPT ![m] = SetValue(m, got'[m])]
                         /\ written' = written \cup {m}
                /\ (outcome'[m] = "ok" /\ SetValue(m, got'[m]) = NoValue)
                      => /\ m = "status"
                         /\ Sink' = Sink
                         /\ written' = written
                /\ outcome'[m] = "err"
                      => /\ Sink' = Sink
                         /\ written' = written]_vars

\* the soc gauge has just been set, after the range fetch of the cycle
\* failed, and all gauges had been set in earlier cycles
C16_Witness ==
    /\ pc = "status"
    /\ outcome["range"] = "err"
    /\ outcome["soc"] = "ok"
    /\ written = {"soc"}
    /\ everSet = Metrics

\* the steps of the goroutine from one position to the next
Order ==
    {<<"login", "resolve">>, <<"login", "sleep_login">>,
     <<"resolve", "range">>, <<"resolve", "sleep_resolve">>,
     <<"range", "soc">>, <<"soc", "status">>, <<"status", "finish">>,
     <<"finish", "odometer">>, <<"odometer", "sleep_poll">>,
     <<"sleep_login", "login">>, <<"sleep_resolve", "login">>,
     <<"sleep_poll", "login">>}

\* the metrics fetched before m in a cycle
Before(m) ==
    CASE m = "range"    -> {}
      [] m = "soc"      -> {"range"}
      [] m = "status"   -> {"range", "soc"}
      [] m = "finish"   -> {"range", "soc", "status"}
      [] m = "odometer" -> {"range", "soc", "status", "finish"}

\* C13: the goroutine is at one position at a time and moves only from login
\* to resolution, from resolution to the five fetches in the order range,
\* soc, status, finish, odometer, and from there to the sleep, each stage
\* starting when the one before it has returned, or from a failed login or
\* resolution to the sleep; a login starts only when the sleep of the cycle
\* before has returned, and nothing of the new cycle has happened before it.
C13_StagesInOrder ==
    [][/\ <<pc, pc'>> \in Order
       /\ pc' = "login"
             => /\ pc \in SleepPcs
                /\ sleeps' = 1
                /\ ~listed'
                /\ outcome' = NoOutcome
       /\ pc' = "resolve" => ~loginErr' /\ ~listed'
       /\ pc' = "range" => listed' /\ resolveErr' = "nil"
       /\ \A m \in Metrics :
             /\ pc = FetchPc[m]
                   => /\ \A o \in Before(m) : outcome[o] # "none"
                      /\ \A o \in Metrics \ Before(m) : outcome[o] = "none"
                      /\ outcome'[m] # "none"
             /\ outcome'[m] # outcome[m]
                   => pc = FetchPc[m] \/ pc' = "login"]_vars

\* the login of a cycle is about to start after the sleep of a cycle that
\* went through all stages
C13_Witness ==
    /\ pc = "login"
    /\ sleeps = 1
    /\ wholeCycle
    /\ outcome = NoOutcome

\* C14: every cycle starts with no session and logs in; the list call and
\* the five fetches of a cycle go through the session that the login of
\* this cycle made, never through one of an earlier cycle, whatever the
\* earlier logins returned.
C14_SessionOfThisCycle ==
    [][/\ pc' = "login" => identity' = NoSession /\ api' = NoSession
       /\ pc = "login"
             => /\ identity = NoSession
                /\ identity' = IF loginErr' THEN "failed" ELSE "new"
       /\ pc = "resolve" => identity = "new" /\ api' = "new"
       /\ pc \in {FetchPc[m] : m \in Metrics}
             => /\ identity = "new"
                /\ api = "new"
                /\ provider'.api = "new"]_vars

\* a fetch has been made in a cycle that follows a cycle with a session
C14_Witness ==
    /\ pc = "soc"
    /\ "odometer" \in everSet
    /\ provider.api = "new"
    /\ identity = "new"

\* C15: every cycle starts with no vehicle; the vehicle of a cycle is the one
\* that ensureVehicleEx returned for the list of this cycle, of the filter's
\* identifier if the filter is not empty, and the five fetches of the cycle
\* go to it, whatever vehicle the fetches of the cycle before went to.
C15_VehicleOfThisCycle ==
    [][/\ pc' = "login" => vehicle' = ZeroVehicle
       /\ pc = "resolve"
             => /\ vehicle = ZeroVehicle
                /\ pc' = "range"
                      => /\ vehicle' \in Vehicles
                         /\ vin # <<>> => EqualFold(vehicle'.VIN, vin)
                         /\ ~listFailed'
       /\ pc \in {FetchPc[m] : m \in Metrics}
             => /\ listed /\ resolveErr = "nil"
                /\ vehicle' = vehicle
                /\ provider'.vehicle = vehicle]_vars

\* the list of this cycle gave another vehicle than the one the fetches of
\* the cycle before went to
C15_Witness ==
    /\ pc = "range"
    /\ resolveErr = "nil"
    /\ provider.vehicle # ZeroVehicle
    /\ provider.vehicle # vehicle
    /\ provider.api = "old"

\* a gauge is set in the step that fetches its metric, when the fetches
\* before it have returned and no later gauge has been set in the cycle
SetInOrder ==
    \A m \in Metrics :
       (m \in written' /\ m \notin written)
          => /\ pc = FetchPc[m]
             /\ written \subseteq Before(m)
             /\ \A o \in Before(m) : outcome[o] # "none"

\* C19 as stated: the gauges of a cycle are set in the order range, soc,
\* status, finish, odometer, each when the fetch before it has returned; and
\* as long as the odometer gauge holds the value of a cycle that set all five
\* gauges, every other gauge holds the value of that cycle as well.
C19_OdometerDatesAll ==
    [][/\ SetInOrder
       /\ (wholeCycle /\ "odometer" \notin written') => written' = {}]_vars

\* C19 amended: the gauges of a cycle are set in the order range, soc,
\* status, finish, odometer, each when the fetch before it has returned; from
\* the return of the odometer fetch to the end of the sleep of the cycle,
\* every gauge whose fetch succeeded in the cycle (the status with a code of
\* "", "A".."F") holds the value of this cycle; and the first gauge set in
\* the next cycle is set while the later ones still hold older values.
C19_SetInOrder ==
    [][/\ SetInOrder
       /\ pc' = "sleep_poll"
             => \A m \in Metrics :
                   (outcome'[m] = "ok" /\ SetValue(m, got'[m]) # NoValue)
                      => /\ m \in written'
                         /\ Sink'[m] = SetValue(m, got'[m])
       /\ pc = "sleep_poll" => Sink' = Sink
       /\ (wholeCycle /\ written' # {})
             => \E m \in Metrics :
                   /\ pc = FetchPc[m]
                   /\ written' = {m}
                   /\ \A o \in Metrics \ {m} : Sink'[o] = Sink[o]]_vars

\* range and soc have been set in this cycle, while status, finish and
\* odometer hold the values of the cycle before, which set all five
C19_Witness ==
    /\ pc = "status"
    /\ written = {"range", "soc"}
    /\ everSet = Metrics
    /\ provider.api = "new"
    /\ sleeps = 0

\* C12: a read of the metrics handler, between any two steps of the
\* goroutine, changes no gauge and nothing the goroutine works on; it reads
\* 0, the value of a gauge that has never been set, or the value of the last
\* Set call on that gauge, made by a fetch of its metric that succeeded; the
\* gauges change in the fetch steps of the goroutine only.
C12_ScrapeOnlyReads ==
    [][/\ scraped' # scraped
             => /\ loop' = loop
                /\ Sink' = Sink
                /\ scraped'.metric \in Metrics
                /\ scraped'.val = IF scraped'.metric \in everSet
                                  THEN lastSet[scraped'.metric]
                                  ELSE 0
       /\ Sink' # Sink
             => /\ scraped' = scraped
                /\ \E m \in Metrics :
                      /\ pc = FetchPc[m]
                      /\ outcome'[m] = "ok"
                      /\ Sink'[m] = lastSet'[m]]_vars

\* the handler read the soc gauge before it was ever set, the goroutine has
\* set it since, and nothing of that was undone by the read
C12_Witness ==
    /\ scraped = [metric |-> "soc", val |-> 0]
    /\ pc = "status"
    /\ evSoc = 1
    /\ written = {"range", "soc"}

\* C18: when a remote call never returns, the goroutine stays in that call:
\* from then on no gauge is set, no sleep starts and no cycle begins; the
\* gauges set earlier in the cycle keep the values of this cycle, and all
\* others keep the values they had.
C18_HangStopsLoop ==
    [][/\ pc # "hang"
       /\ hungAt' # hungAt
             => /\ pc \in CallPcs
                /\ hungAt' = pc
                /\ pc' = "hang"
                /\ Sink' = Sink
                /\ written' = written
                /\ outcome' = outcome
                /\ sleeps' = sleeps
       /\ pc' = "hang"
             => \A m \in written' : Sink'[m] = SetValue(m, got'[m])]_vars

\* the status call never returns, after range and soc were set in the cycle
C18_Witness ==
    /\ pc = "hang"
    /\ hungAt = "status"
    /\ written = {"range", "soc"}
    /\ evRange = 1
    /\ evSoc = 1
    /\ "odometer" \in everSet

\* C8: every step that arrives at a login is a sleep, the only one since the
\* login before, and it lasts pollInterval seconds; every path of the cycle
\* ends in such a sleep.
C8_OneSleepPerCycle ==
    [][/\ pc' = "login"
             => /\ pc \in SleepPcs
                /\ sleeps = 0
                /\ sleeps' = 1
                /\ sleptFor' = pollInterval
       /\ pc \in SleepPcs => pc' = "login"
       /\ pc = "login" => pc' \in {"sleep_login", "resolve"}
       /\ pc = "resolve" => pc' \in {"sleep_resolve", "range"}
       /\ pc = "odometer" => pc' = "sleep_poll"
       /\ pc' # "login" => sleeps' = 0 /\ sleptFor' = 0]_vars

C8_Witness ==
    /\ pc = "login"
    /\ sleeps = 1
    /\ sleptFor = pollInterval
    /\ sleptFor = 60
    /\ everSet # {}

(***************************************************************************)
(* Under LiveSpec                                                          *)
(***************************************************************************)
\* C9: the goroutine never stops: whatever fails, it logs in again and
\* again.
C9_LoginsForever == []<><<Login>>_vars

\* a login is about to be made after a cycle in which, as in all cycles
\* before it, nothing was published
C9_Witness ==
    /\ pc = "login"
    /\ sleeps = 1
    /\ everSet = {}

====
